---- MODULE Spec2Model ----
(***************************************************************************)
(* A model of src/dpll.py: a recursive DPLL satisfiability solver with two *)
(* optional heuristics (unit propagation, pure-literal elimination).       *)
(*                                                                         *)
(* Literal tokens are Python strings; they are modelled as sequences of    *)
(* one-character strings ("~p" is <<"~", "p">>) so that the string         *)
(* operations of the source (startswith, slicing, f"~{literal}") are       *)
(* modelled by what they do.  A clause is a set of tokens, a formula a     *)
(* sequence of clauses, an assignment (a dict) a function whose domain is  *)
(* the set of its keys.  The recursion of dpll is an explicit stack of     *)
(* frames, one per active call.                                            *)
(***************************************************************************)
EXTENDS Integers, Sequences, FiniteSets, TLC

VARIABLES clauses, use_unit_clause, use_pure_literal, pc, stack, ret, result, verdicts

vars == <<clauses, use_unit_clause, use_pure_literal, pc, stack, ret, result, verdicts>>

(***************************************************************************)
(* Bounds of the model.                                                    *)
(***************************************************************************)
MaxClauses == 4

(***************************************************************************)
(* Tokens.                                                                 *)
(***************************************************************************)
VarNames == {<<"p">>, <<"q">>}

\* f"~{literal}" and "~" + literal
Neg(literal) == <<"~">> \o literal

\* literal.startswith("~")
StartsWithTilde(literal) == Len(literal) > 0 /\ literal[1] = "~"

\* "~" in literal
ContainsTilde(literal) == \E i \in 1..Len(literal) : literal[i] = "~"

\* literal[1:]
Strip(literal) == IF Len(literal) = 0 THEN literal ELSE Tail(literal)

Literals == VarNames \cup {Neg(v) : v \in VarNames}

\* the clauses parse_input builds from lines of tokens: "".split(",") is
\* [""], so a clause is never the empty set.  The inputs of the model are
\* the clauses over VarNames that hold no literal together with its
\* complement.
InputClauses ==
    {c \in SUBSET Literals : c # {} /\ \A v \in VarNames : ~({v, Neg(v)} \subseteq c)}

\* the formulas read from stdin: one clause per line
parse_input == UNION {[1..n -> InputClauses] : n \in 0..MaxClauses}

(***************************************************************************)
(* Dictionaries.                                                           *)
(***************************************************************************)
EmptyDict == [k \in {} |-> FALSE]

\* d[key] = value
DictSet(d, key, value) ==
    [k \in DOMAIN d \cup {key} |-> IF k = key THEN value ELSE d[k]]

(***************************************************************************)
(* The pure functions of the solver.                                       *)
(***************************************************************************)
\* [list(clause)[0] for clause in clauses if len(clause) == 1]
find_unit_clauses(cls) ==
    LET units == SelectSeq(cls, LAMBDA clause : Cardinality(clause) = 1)
    IN  [i \in 1..Len(units) |-> CHOOSE literal \in units[i] : TRUE]

\* the key under which find_pure_literals counts a literal
CountKey(literal) == IF ContainsTilde(literal) THEN Strip(literal) ELSE literal

\* literal_occurrence[key] after the two loops
Occurrence(cls, key) ==
    LET RECURSIVE Count(_)
        Count(i) ==
            IF i = 0 THEN 0
            ELSE Count(i - 1)
                 + Cardinality({l \in cls[i] : ~ContainsTilde(l) /\ l = key})
                 - Cardinality({l \in cls[i] : ContainsTilde(l) /\ Strip(l) = key})
    IN  Count(Len(cls))

\* the keys of the returned list; their order (dict insertion order) does
\* not influence the outcome of the pass of dpll that consumes it
find_pure_literals(cls) ==
    LET keys == {CountKey(l) : l \in UNION {cls[i] : i \in 1..Len(cls)}}
    IN  {key \in keys : Occurrence(cls, key) # 0}

\* a clause is skipped (continue) when the assignment makes it true
Satisfied(clause, literal, value) ==
    (literal \in clause /\ value) \/ (Neg(literal) \in clause /\ ~value)

\* assign with the membership test of the second disjunct of line 35 lost:
\* with value False every clause counts as satisfied
assign_lost_test(cls, literal, value) ==
    LET open == SelectSeq(cls, LAMBDA clause : ~((literal \in clause /\ value) \/ ~value))
        stripped == [i \in 1..Len(open) |-> open[i] \ {literal, Neg(literal)}]
    IN  SelectSeq(stripped, LAMBDA new_clause : new_clause # {})

\* assign without the test of line 38: an emptied clause is appended too
assign_keep_empty(cls, literal, value) ==
    LET open == SelectSeq(cls, LAMBDA clause : ~Satisfied(clause, literal, value))
    IN  [i \in 1..Len(open) |-> open[i] \ {literal, Neg(literal)}]

\* lines 31-40; an emptied clause is not appended (line 38)
assign(cls, literal, value) ==
    LET open == SelectSeq(cls, LAMBDA clause : ~Satisfied(clause, literal, value))
        stripped == [i \in 1..Len(open) |-> open[i] \ {literal, Neg(literal)}]
    IN  SelectSeq(stripped, LAMBDA new_clause : new_clause # {})

(***************************************************************************)
(* Return values of dpll: False, or the assignments dict.                  *)
(***************************************************************************)
NoValue == [status |-> "none", asg |-> EmptyDict]

ReturnFalse == [status |-> "False", asg |-> EmptyDict]

ReturnDict(assignments) == [status |-> "dict", asg |-> assignments]

(***************************************************************************)
(* One frame per active call of dpll: its position and its locals.         *)
(***************************************************************************)
Frame(cls, assignments) ==
    [pc |-> "entry", clauses |-> cls, assignments |-> assignments,
     unit_clauses |-> <<>>, literal |-> <<>>, value |-> TRUE]

Top == stack[Len(stack)]

Running == pc = "dpll" /\ stack # <<>>

\* the top frame continues with new locals
Continue(frame) ==
    /\ stack' = [stack EXCEPT ![Len(stack)] = frame]
    /\ UNCHANGED ret

\* the top call returns value to its caller
Return(value) ==
    /\ stack' = SubSeq(stack, 1, Len(stack) - 1)
    /\ ret' = value

\* any(not clause for clause in clauses)
AnyEmpty(cls) == \E i \in 1..Len(cls) : cls[i] = {}

\* the check of lines 53-56 on the set of unit literals
Contradiction(unit_literals) ==
    \E literal \in unit_literals :
        \/ StartsWithTilde(literal) /\ Strip(literal) \in unit_literals
        \/ Neg(literal) \in unit_literals

SeqRange(s) == {s[i] : i \in 1..Len(s)}

(***************************************************************************)
(* Init: the flags are parsed and the formula is read.                     *)
(***************************************************************************)
Init ==
    /\ clauses \in parse_input
    /\ use_unit_clause \in BOOLEAN
    /\ use_pure_literal \in BOOLEAN
    /\ pc = "call"
    /\ stack = <<>>
    /\ ret = NoValue
    /\ result = NoValue
    /\ verdicts = EmptyDict

\* main, line 102: dpll(clauses, {}, args.nounit, args.nopure)
CallDpll ==
    /\ pc = "call"
    /\ pc' = "dpll"
    /\ stack' = <<Frame(clauses, EmptyDict)>>
    /\ UNCHANGED <<clauses, use_unit_clause, use_pure_literal, ret, result, verdicts>>

\* dpll, lines 44-47
DpllEntry ==
    /\ Running
    /\ Top.pc = "entry"
    /\ IF Top.clauses = <<>>
         THEN Return(ReturnDict(Top.assignments))
         ELSE IF AnyEmpty(Top.clauses)
                THEN Return(ReturnFalse)
                ELSE Continue([Top EXCEPT !.pc = "unit"])
    /\ UNCHANGED <<clauses, use_unit_clause, use_pure_literal, pc, result, verdicts>>

\* dpll, lines 49-56
UnitCheck ==
    /\ Running
    /\ Top.pc = "unit"
    /\ IF ~use_unit_clause
         THEN Continue([Top EXCEPT !.pc = "pure"])
         ELSE LET unit_clauses == find_unit_clauses(Top.clauses)
              IN  IF Contradiction(SeqRange(unit_clauses))
                    THEN Return(ReturnFalse)
                    ELSE Continue([Top EXCEPT !.pc = "unit_loop",
                                              !.unit_clauses = unit_clauses])
    /\ UNCHANGED <<clauses, use_unit_clause, use_pure_literal, pc, result, verdicts>>

\* dpll, lines 58-65: one iteration of the while loop
UnitStep ==
    /\ Running
    /\ Top.pc = "unit_loop"
    /\ IF Top.unit_clauses = <<>>
         THEN Continue([Top EXCEPT !.pc = "pure"])
         ELSE LET popped == Top.unit_clauses[Len(Top.unit_clauses)]
                  value == ~StartsWithTilde(popped)
                  literal == IF StartsWithTilde(popped) THEN Strip(popped) ELSE popped
                  new_clauses == assign(Top.clauses, literal, value)
              IN  Continue([Top EXCEPT
                      !.assignments = DictSet(Top.assignments, literal, value),
                      !.clauses = new_clauses,
                      !.unit_clauses = find_unit_clauses(new_clauses)])
    /\ UNCHANGED <<clauses, use_unit_clause, use_pure_literal, pc, result, verdicts>>

\* the body of the loop of lines 69-74 for one element of pure_literals
PureAssign(state, pure) ==
    LET value == ~StartsWithTilde(pure)
        literal == IF StartsWithTilde(pure) THEN Strip(pure) ELSE pure
    IN  [clauses |-> assign(state.clauses, literal, value),
         assignments |-> DictSet(state.assignments, literal, value)]

\* the loop of lines 69-74 over pure_literals
RECURSIVE PureLoop(_, _)
PureLoop(state, pure_literals) ==
    IF pure_literals = {} THEN state
    ELSE LET pure == CHOOSE l \in pure_literals : TRUE
         IN  PureLoop(PureAssign(state, pure), pure_literals \ {pure})

\* dpll, lines 67-74
PureLiteralPass ==
    /\ Running
    /\ Top.pc = "pure"
    /\ IF ~use_pure_literal
         THEN Continue([Top EXCEPT !.pc = "recheck"])
         ELSE LET done == PureLoop([clauses |-> Top.clauses,
                                    assignments |-> Top.assignments],
                                   find_pure_literals(Top.clauses))
              IN  Continue([Top EXCEPT !.pc = "recheck",
                                        !.clauses = done.clauses,
                                        !.assignments = done.assignments])
    /\ UNCHANGED <<clauses, use_unit_clause, use_pure_literal, pc, result, verdicts>>

\* dpll, lines 76-79
Recheck ==
    /\ Running
    /\ Top.pc = "recheck"
    /\ IF Top.clauses = <<>>
         THEN Return(ReturnDict(Top.assignments))
         ELSE IF AnyEmpty(Top.clauses)
                THEN Return(ReturnFalse)
                ELSE Continue([Top EXCEPT !.pc = "choose"])
    /\ UNCHANGED <<clauses, use_unit_clause, use_pure_literal, pc, result, verdicts>>

\* the scan without the test of line 83: every literal passes
Unassigned_no_test(clause, assignments) == clause

\* the literals of a clause that pass the test of line 83
Unassigned(clause, assignments) ==
    {literal \in clause :
        literal \notin DOMAIN assignments /\ Neg(literal) \notin DOMAIN assignments}

\* the scan of lines 81-83 with line 84 iterating [False, True]
ChooseLiteral_false_first ==
    /\ Running
    /\ Top.pc = "choose"
    /\ LET found == {i \in 1..Len(Top.clauses) :
                        Unassigned(Top.clauses[i], Top.assignments) # {}}
       IN  IF found = {}
             THEN Return(ReturnDict(Top.assignments))
             ELSE LET first == CHOOSE i \in found : \A j \in found : i <= j
                  IN  \E literal \in Unassigned(Top.clauses[first], Top.assignments) :
                          Continue([Top EXCEPT !.pc = "branch",
                                               !.literal = literal,
                                               !.value = FALSE])
    /\ UNCHANGED <<clauses, use_unit_clause, use_pure_literal, pc, result, verdicts>>

\* dpll, lines 81-83 and 93: the scan for the decision literal.  The clauses
\* are scanned in order; the order of the literals inside a clause (a set)
\* is not fixed, so any passing literal of the first clause that has one
\* can be the one found.
ChooseLiteral ==
    /\ Running
    /\ Top.pc = "choose"
    /\ LET found == {i \in 1..Len(Top.clauses) :
                        Unassigned(Top.clauses[i], Top.assignments) # {}}
       IN  IF found = {}
             THEN Return(ReturnDict(Top.assignments))
             ELSE LET first == CHOOSE i \in found : \A j \in found : i <= j
                  IN  \E literal \in Unassigned(Top.clauses[first], Top.assignments) :
                          Continue([Top EXCEPT !.pc = "branch",
                                               !.literal = literal,
                                               !.value = TRUE])
    /\ UNCHANGED <<clauses, use_unit_clause, use_pure_literal, pc, result, verdicts>>

\* lines 84-88 without the copies: the node assigns into its own assignments
\* and rebinds its own clauses before the recursive call
BranchCall_in_place ==
    /\ Running
    /\ Top.pc = "branch"
    /\ LET next_assignments == DictSet(Top.assignments, Top.literal, Top.value)
           next_clauses == assign(Top.clauses, Top.literal, Top.value)
       IN  stack' = [stack EXCEPT ![Len(stack)] =
                        [Top EXCEPT !.pc = "wait",
                                    !.assignments = next_assignments,
                                    !.clauses = next_clauses]]
                    \o <<Frame(next_clauses, next_assignments)>>
    /\ ret' = NoValue
    /\ UNCHANGED <<clauses, use_unit_clause, use_pure_literal, pc, result, verdicts>>

\* dpll, lines 84-88: the recursive call for the current value
BranchCall ==
    /\ Running
    /\ Top.pc = "branch"
    /\ LET next_assignments == DictSet(Top.assignments, Top.literal, Top.value)
           next_clauses == assign(Top.clauses, Top.literal, Top.value)
       IN  stack' = [stack EXCEPT ![Len(stack)] = [Top EXCEPT !.pc = "wait"]]
                    \o <<Frame(next_clauses, next_assignments)>>
    /\ ret' = NoValue
    /\ UNCHANGED <<clauses, use_unit_clause, use_pure_literal, pc, result, verdicts>>

\* lines 88-91 with the loop of line 84 never exhausted: after a failed
\* subtree the node tries the other value again
BranchReturn_retry_forever ==
    /\ Running
    /\ Top.pc = "wait"
    /\ IF ret.status = "dict"
         THEN Return(ret)
         ELSE /\ stack' = [stack EXCEPT ![Len(stack)] =
                              [Top EXCEPT !.pc = "branch", !.value = ~Top.value]]
              /\ ret' = NoValue
    /\ UNCHANGED <<clauses, use_unit_clause, use_pure_literal, pc, result, verdicts>>

\* dpll, lines 88-91: the recursive call has returned
BranchReturn ==
    /\ Running
    /\ Top.pc = "wait"
    /\ IF ret.status = "dict"
         THEN Return(ret)
         ELSE IF Top.value
                THEN /\ stack' = [stack EXCEPT ![Len(stack)] =
                                     [Top EXCEPT !.pc = "branch", !.value = FALSE]]
                     /\ ret' = NoValue
                ELSE Return(ReturnFalse)
    /\ UNCHANGED <<clauses, use_unit_clause, use_pure_literal, pc, result, verdicts>>

\* main, lines 104-109: the variable of every literal of the formula
AllVars(cls) ==
    {IF StartsWithTilde(literal) THEN Strip(literal) ELSE literal :
        literal \in UNION {cls[i] : i \in 1..Len(cls)}}

\* main, lines 103-111: the result after the defaults are filled in
Finalized(cls, returned) ==
    IF returned.status = "dict"
      THEN LET missing == {var \in AllVars(cls) :
                              var \notin DOMAIN returned.asg
                              /\ Neg(var) \notin DOMAIN returned.asg}
           IN  ReturnDict([k \in DOMAIN returned.asg \cup missing |->
                              IF k \in missing THEN FALSE ELSE returned.asg[k]])
      ELSE returned

\* main, lines 102-114: dpll has returned to main
Finalize ==
    /\ pc = "dpll"
    /\ stack = <<>>
    /\ result' = Finalized(clauses, ret)
    /\ pc' = "done"
    /\ UNCHANGED <<clauses, use_unit_clause, use_pure_literal, stack, ret, verdicts>>

Next ==
    \/ CallDpll
    \/ DpllEntry
    \/ UnitCheck
    \/ UnitStep
    \/ PureLiteralPass
    \/ Recheck
    \/ ChooseLiteral
    \/ BranchCall
    \/ BranchReturn
    \/ Finalize

Spec == Init /\ [][Next]_vars

(***************************************************************************)
(* The program run once per setting of the two flags on the same input,    *)
(* in the order (unit, pure) = (T,T), (T,F), (F,T), (F,F); verdicts keeps  *)
(* the verdict printed by each finished run.                               *)
(***************************************************************************)
InitToggles ==
    /\ Init
    /\ use_unit_clause
    /\ use_pure_literal

\* main again, lines 96-102, with the next setting of --nounit/--nopure
Rerun ==
    /\ pc = "done"
    /\ ~(~use_unit_clause /\ ~use_pure_literal)
    /\ verdicts' = DictSet(verdicts, <<use_unit_clause, use_pure_literal>>,
                           result.status = "dict")
    /\ use_unit_clause' = (use_unit_clause /\ use_pure_literal)
    /\ use_pure_literal' = ~use_pure_literal
    /\ pc' = "call"
    /\ ret' = NoValue
    /\ result' = NoValue
    /\ UNCHANGED <<clauses, stack>>

NextToggles ==
    \/ Next
    \/ Rerun

SpecToggles == InitToggles /\ [][NextToggles]_vars

(***************************************************************************)
(* Notions the properties are stated with.                                 *)
(***************************************************************************)
\* the literal is true under the assignment; an entry keyed by a negated
\* token is read as the truth value of that negated literal
Holds(asg, literal) ==
    \/ literal \in DOMAIN asg /\ asg[literal]
    \/ StartsWithTilde(literal) /\ Strip(literal) \in DOMAIN asg /\ ~asg[Strip(literal)]
    \/ Neg(literal) \in DOMAIN asg /\ ~asg[Neg(literal)]

\* some truth assignment of the variables makes every clause true
Satisfiable(cls) ==
    \E m \in [VarNames -> BOOLEAN] :
        \A i \in 1..Len(cls) :
            \E v \in VarNames : (v \in cls[i] /\ m[v]) \/ (Neg(v) \in cls[i] /\ ~m[v])

\* the variables that occur in the clauses, in either polarity
VarsIn(cls) ==
    {v \in VarNames : \E i \in 1..Len(cls) : v \in cls[i] \/ Neg(v) \in cls[i]}

\* both {x} and {~x} are clauses
ComplementaryUnits(cls) ==
    \E v \in VarNames : \E i, j \in 1..Len(cls) : cls[i] = {v} /\ cls[j] = {Neg(v)}

\* positive occurrences minus negative occurrences of the variable
SignedCount(cls, v) ==
    Cardinality({i \in 1..Len(cls) : v \in cls[i]})
    - Cardinality({i \in 1..Len(cls) : Neg(v) \in cls[i]})

\* the variable occurs, and with one polarity only
OnePolarity(cls, v) ==
    (\E i \in 1..Len(cls) : v \in cls[i]) # (\E i \in 1..Len(cls) : Neg(v) \in cls[i])

\* some clause is not satisfied by the assignment and is left empty when
\* both forms of the literal are removed
LeftEmpty(cls, literal, value) ==
    \E i \in 1..Len(cls) :
        /\ ~((literal \in cls[i] /\ value) \/ (Neg(literal) \in cls[i] /\ ~value))
        /\ cls[i] \ {literal, Neg(literal)} = {}

\* the frame the top call has after a step that keeps it on the stack
TopAfter == stack'[Len(stack)]

\* the keys a step of the top call writes into its assignments
Written ==
    {k \in DOMAIN TopAfter.assignments :
        k \notin DOMAIN Top.assignments \/ TopAfter.assignments[k] # Top.assignments[k]}

(***************************************************************************)
(* C1 -- Soundness: whenever the solver reports satisfiable, every clause  *)
(* of the original formula contains a literal that is true under the       *)
(* returned (finalized) assignment.                                        *)
(***************************************************************************)
C1_Soundness ==
    (pc = "done" /\ result.status = "dict")
        => \A i \in 1..Len(clauses) : \E literal \in clauses[i] : Holds(result.asg, literal)

(***************************************************************************)
(* C2 -- Completeness: for an unsatisfiable formula dpll returns the       *)
(* failure signal, never an assignment, under every setting of the flags.  *)
(***************************************************************************)
C2_Completeness ==
    (pc = "done" /\ ~Satisfiable(clauses)) => ret.status = "False"

(***************************************************************************)
(* C3 -- Toggle agreement: the runs of the four flag settings on the same  *)
(* formula give the same satisfiable/unsatisfiable verdict.                *)
(***************************************************************************)
C3_ToggleAgreement ==
    pc = "done" => \A t \in DOMAIN verdicts : verdicts[t] = (result.status = "dict")

(***************************************************************************)
(* C4 -- Totality: a satisfiable result has an entry keyed by the variable *)
(* name for every variable of the formula; variables the search did not    *)
(* assign get False, values the search assigned are unchanged.             *)
(***************************************************************************)
C4_Totality ==
    (pc = "done" /\ result.status = "dict")
        => /\ \A v \in VarsIn(clauses) :
                /\ v \in DOMAIN result.asg
                /\ v \notin DOMAIN ret.asg => ~result.asg[v]
           /\ \A k \in DOMAIN ret.asg :
                k \in DOMAIN result.asg /\ result.asg[k] = ret.asg[k]

(***************************************************************************)
(* C5 -- Contradiction detection: on a formula that contains both {x} and  *)
(* {~x}, dpll returns failure at that node without branching (no recursive *)
(* call is made), under every setting of the flags.                        *)
(***************************************************************************)
C5_ContradictionDetection ==
    ComplementaryUnits(clauses)
        => /\ Len(stack) <= 1
           /\ ret.status # "dict"
           /\ pc = "done" => ret.status = "False"

C7_EmptyClauseKept ==
    [][/\ (Running /\ Top.pc = "branch"
            /\ LeftEmpty(Top.clauses, Top.literal, Top.value))
           => AnyEmpty(stack'[Len(stack')].clauses)
       /\ (Running /\ Top.pc = "unit_loop" /\ Top.unit_clauses # <<>>
            /\ LET popped == Top.unit_clauses[Len(Top.unit_clauses)]
               IN  LeftEmpty(Top.clauses,
                             IF StartsWithTilde(popped) THEN Strip(popped) ELSE popped,
                             ~StartsWithTilde(popped)))
           => AnyEmpty(TopAfter.clauses)]_vars

(***************************************************************************)
(* C8 -- Contradiction during propagation: when the unit literals the loop *)
(* is about to pop from contain a variable and its negation, the call      *)
(* returns failure instead of assigning one of them.                       *)
(***************************************************************************)
C8_PropagationContradiction ==
    [][(/\ Running
        /\ Top.pc = "unit_loop"
        /\ \E v \in VarNames : {v, Neg(v)} \subseteq SeqRange(Top.unit_clauses))
           => (Len(stack') = Len(stack) - 1 /\ ret'.status = "False")]_vars

(***************************************************************************)
(* C9 -- Pure-literal elimination assigns only genuinely pure variables:   *)
(* every key the pure-literal pass writes is a variable that occurs with   *)
(* exactly one polarity in the clauses present when the pass starts.       *)
(***************************************************************************)
C9_OnlyPureAssigned ==
    [][(Running /\ Top.pc = "pure" /\ use_pure_literal)
           => \A k \in Written : k \in VarNames /\ OnePolarity(Top.clauses, k)]_vars

(***************************************************************************)
(* C10 -- Pure-literal polarity: after the pass a variable whose signed    *)
(* occurrence count was positive is True and one whose count was negative  *)
(* is False; the clauses with the negative literal of a variable that      *)
(* occurred only negatively are gone.                                      *)
(***************************************************************************)
C10_PurePolarity ==
    [][(Running /\ Top.pc = "pure" /\ use_pure_literal)
           => \A v \in VarNames :
                /\ SignedCount(Top.clauses, v) > 0
                     => (v \in DOMAIN TopAfter.assignments /\ TopAfter.assignments[v])
                /\ SignedCount(Top.clauses, v) < 0
                     => (v \in DOMAIN TopAfter.assignments /\ ~TopAfter.assignments[v])
                /\ (OnePolarity(Top.clauses, v) /\ SignedCount(Top.clauses, v) < 0)
                     => \A i \in 1..Len(TopAfter.clauses) :
                            Neg(v) \notin TopAfter.clauses[i]]_vars

\* the variable a key of an assignment stands for
VarOf(key) == IF StartsWithTilde(key) THEN Strip(key) ELSE key

\* no two keys of the assignment stand for the same variable
OneEntry(asg) ==
    \A k1, k2 \in DOMAIN asg : VarOf(k1) = VarOf(k2) => k1 = k2

\* the variables the assignment has an entry for, under either form
AssignedVars(asg) == {VarOf(k) : k \in DOMAIN asg}

(***************************************************************************)
(* C11 -- Success only on an emptied formula: a call of dpll that returns  *)
(* an assignment of its own (not the result of a recursive call it passes  *)
(* on) has no clause left at that moment.                                  *)
(***************************************************************************)
C11_SuccessOnlyWhenEmpty ==
    [][(/\ Running
        /\ Top.pc # "wait"
        /\ Len(stack') = Len(stack) - 1
        /\ ret'.status = "dict")
           => Top.clauses = <<>>]_vars

(***************************************************************************)
(* C12 -- One entry per variable: no assignment of the search or of the    *)
(* final result holds two entries for one variable (bare and negated       *)
(* form), and no step of unit propagation, pure-literal elimination or     *)
(* branching assigns a variable the current call has already assigned.     *)
(***************************************************************************)
C12_OneEntryPerVariable ==
    [][/\ \A i \in 1..Len(stack') : OneEntry(stack'[i].assignments)
       /\ OneEntry(ret'.asg)
       /\ OneEntry(result'.asg)
       /\ (Running /\ Top.pc = "unit_loop" /\ Top.unit_clauses # <<>>)
            => VarOf(Top.unit_clauses[Len(Top.unit_clauses)])
                   \notin AssignedVars(Top.assignments)
       /\ (Running /\ Top.pc = "pure" /\ use_pure_literal)
            => \A k \in Written : VarOf(k) \notin AssignedVars(Top.assignments)
       /\ (Running /\ Top.pc = "branch" /\ Top.value)
            => VarOf(Top.literal) \notin AssignedVars(Top.assignments)]_vars

(***************************************************************************)
(* C13 -- Backtracking isolation: a recursive call is made on copies (the  *)
(* node keeps its clauses and assignment), nothing a call does changes a   *)
(* frame below it, and after a failed True subtree the node still holds    *)
(* what it held before the attempt, so the False subtree starts from the   *)
(* same clauses and assignment; when the False subtree fails as well the   *)
(* node returns failure.                                                   *)
(***************************************************************************)
C13_BacktrackingIsolation ==
    [][/\ \A i \in 1..(Len(stack) - 1) : i <= Len(stack') => stack'[i] = stack[i]
       /\ (Running /\ Top.pc = "branch")
            => /\ Len(stack') = Len(stack) + 1
               /\ stack'[Len(stack)] = [Top EXCEPT !.pc = "wait"]
               /\ stack'[Len(stack')] =
                      Frame(assign(Top.clauses, Top.literal, Top.value),
                            DictSet(Top.assignments, Top.literal, Top.value))
       /\ (Running /\ Top.pc = "wait" /\ ret.status = "False" /\ Top.value)
            => stack' = [stack EXCEPT ![Len(stack)] =
                            [Top EXCEPT !.pc = "branch", !.value = FALSE]]
       /\ (Running /\ Top.pc = "wait" /\ ret.status = "False" /\ ~Top.value)
            => (Len(stack') = Len(stack) - 1 /\ ret'.status = "False")]_vars

\* the True subtree of a node has failed and its False subtree has started
C13_Witness ==
    /\ Running
    /\ Len(stack) >= 2
    /\ Top.pc = "entry"
    /\ ~stack[Len(stack) - 1].value
    /\ Top.clauses = assign(stack[Len(stack) - 1].clauses,
                            stack[Len(stack) - 1].literal, FALSE)

(***************************************************************************)
(* C14 -- Branch order: the decision literal found by the scan is tried    *)
(* with True first; a node turns to False only when its True subtree has   *)
(* returned failure; the recursive call is made with the value the node is *)
(* at; and the first subtree that returns an assignment ends the node,     *)
(* which returns that assignment unchanged.                                *)
(***************************************************************************)
C14_BranchOrder ==
    [][/\ (Running /\ Top.pc = "choose" /\ Len(stack') = Len(stack))
            => (TopAfter.pc = "branch" /\ TopAfter.value)
       /\ (Running /\ Len(stack') >= Len(stack) /\ Top.value /\ ~TopAfter.value)
            => (Top.pc = "wait" /\ ret.status = "False")
       /\ (Running /\ Top.pc = "branch")
            => /\ Len(stack') = Len(stack) + 1
               /\ stack'[Len(stack')].assignments[Top.literal] = Top.value
       /\ (Running /\ Top.pc = "wait" /\ ret.status = "dict")
            => (Len(stack') = Len(stack) - 1 /\ ret' = ret)]_vars

\* the True subtree of a node has returned an assignment: the node is about
\* to return it without trying False
C14_Witness ==
    /\ Running
    /\ Top.pc = "wait"
    /\ Top.value
    /\ ret.status = "dict"

(***************************************************************************)
(* The program run twice on the same input with the same flags: the runs   *)
(* differ only in the literals the scans of line 82 come upon first (the   *)
(* iteration order of a set of strings is not fixed across runs); verdicts *)
(* keeps the verdict printed by the first run.  The unit clause popped at  *)
(* line 59 is always the last of the list, so it is the same in both runs. *)
(***************************************************************************)
\* main again, lines 101-114, on the same stdin with the same flags
Repeat ==
    /\ pc = "done"
    /\ <<use_unit_clause, use_pure_literal>> \notin DOMAIN verdicts
    /\ verdicts' = DictSet(verdicts, <<use_unit_clause, use_pure_literal>>,
                           result.status = "dict")
    /\ pc' = "call"
    /\ ret' = NoValue
    /\ result' = NoValue
    /\ UNCHANGED <<clauses, use_unit_clause, use_pure_literal, stack>>

NextRepeat ==
    \/ Next
    \/ Repeat

SpecRepeat == Init /\ [][NextRepeat]_vars

(***************************************************************************)
(* C15 -- Choice independence: two runs on the same formula with the same  *)
(* flags print the same satisfiable/unsatisfiable verdict, whichever       *)
(* literals the scans for the decision literal come upon first.            *)
(***************************************************************************)
C15_ChoiceIndependence ==
    (pc = "done" /\ <<use_unit_clause, use_pure_literal>> \in DOMAIN verdicts)
        => verdicts[<<use_unit_clause, use_pure_literal>>] = (result.status = "dict")

(***************************************************************************)
(* C16 -- Bounded recursion: the number of nested calls of dpll never      *)
(* exceeds the number of distinct variables of the formula plus one, and   *)
(* the decision literal of a branching node is of a variable of the        *)
(* formula that the node has not assigned.                                 *)
(***************************************************************************)
C16_BoundedRecursion ==
    /\ Len(stack) <= Cardinality(VarsIn(clauses)) + 1
    /\ (Running /\ Top.pc = "branch" /\ Top.value)
        => /\ VarOf(Top.literal) \in VarsIn(clauses)
           /\ VarOf(Top.literal) \notin AssignedVars(Top.assignments)

\* every variable of a formula of two variables has been branched on
C16_Witness ==
    /\ Cardinality(VarsIn(clauses)) = 2
    /\ Len(stack) = 3

(***************************************************************************)
(* The program keeps running: it is a single thread that executes its next *)
(* statement as long as it has one.                                        *)
(***************************************************************************)
FairSpec == Spec /\ WF_vars(Next)

(***************************************************************************)
(* C17 -- Termination: for every formula and every setting of the flags    *)
(* the run eventually ends with dpll having returned an assignment or      *)
(* failure (so every propagation loop and every chain of recursive calls   *)
(* on the way is finite).                                                  *)
(***************************************************************************)
C17_Termination ==
    <>(pc = "done" /\ stack = <<>> /\ ret.status \in {"dict", "False"})

\* a run that branched has ended: with no unit clause in the formula the
\* failure comes from the two subtrees of the root
C17_Witness ==
    /\ pc = "done"
    /\ ret.status = "False"
    /\ \A i \in 1..Len(clauses) : Cardinality(clauses[i]) > 1

(***************************************************************************)
(* C18 -- No clause sequence produced by assign holds an empty clause: no  *)
(* call of dpll ever holds one; a call returns failure of its own only at  *)
(* the complementary-unit check (any other failure is the failure of its   *)
(* second subtree passed on); so with unit propagation disabled dpll never *)
(* returns failure and every run ends with an assignment.                  *)
(***************************************************************************)
C18_FailureOnlyFromUnitCheck ==
    [][/\ \A i \in 1..Len(stack') : ~AnyEmpty(stack'[i].clauses)
       /\ (Running /\ Len(stack') = Len(stack) - 1 /\ ret'.status = "False")
            => \/ /\ Top.pc = "unit"
                  /\ use_unit_clause
                  /\ ComplementaryUnits(Top.clauses)
               \/ /\ Top.pc = "wait"
                  /\ ~Top.value
                  /\ ret.status = "False"
       /\ ~use_unit_clause => ret'.status # "False"
       /\ (pc' = "done" /\ ~use_unit_clause) => ret'.status = "dict"]_vars

\* with unit propagation disabled a run on an unsatisfiable formula has
\* ended with an assignment
C18_Witness ==
    /\ pc = "done"
    /\ ~use_unit_clause
    /\ ~Satisfiable(clauses)
    /\ ret.status = "dict"

====
